---------------------------- MODULE Spec2Model ----------------------------
(***************************************************************************)
(* A model of the effect framework of prophetverse:                        *)
(*   - the lifecycle-aware effect contract (effects/base.py: BaseEffect,   *)
(*     BaseAdditiveOrMultiplicativeEffect) with the Log variant            *)
(*     (effects/log.py),                                                   *)
(*   - the column router of the older hierarchy (effects.py:               *)
(*     AbstractEffect.match_columns, split_data_into_effects),             *)
(*   - the construction of LinearHeterogenousPriorsEffect (effects.py).    *)
(*                                                                         *)
(* Python values are modelled with their dynamic type where the code       *)
(* depends on it: a pd.Index, a list and a pd.DataFrame are records with   *)
(* a "type" field.  A call's outcome is a record with a "status" field:    *)
(* "ok" (with the returned value) or the name of the exception raised.     *)
(* Column names are sequences of one-character strings, so that a regular  *)
(* expression can be matched against them character by character.          *)
(***************************************************************************)
EXTENDS Integers, Sequences, FiniteSets, TLC

VARIABLES
    cls,                         \* the effect's class: "BaseEffect" | "LogEffect"
    regex,                       \* self.regex: None or a pattern
    effect_mode,                 \* self.effect_mode: "additive" | "multiplicative"
    tags,                        \* the tags get_tag reads
    input_feature_column_names,  \* self._input_feature_column_names
    is_initialized,              \* self._is_initialized
    prepared,                    \* history: the bundle prepare_input_data returned
                                 \* in the current evaluation, or None
    call,                        \* the last call: its operation and arguments
    ret,                         \* the last call's outcome
    hetero,                      \* the LinearHeterogenousPriorsEffect object, or None
    hook_saw                     \* history: the fields the _initialize hook
                                 \* found on the effect when it was last run

vars == <<cls, regex, effect_mode, tags, input_feature_column_names,
          is_initialized, prepared, call, ret, hetero, hook_saw>>

effectVars == <<cls, regex, effect_mode, tags, input_feature_column_names,
                is_initialized, prepared, hook_saw>>

-----------------------------------------------------------------------------
(* Bounds of the model *)

\* The widest table: a table has at most MaxCols columns.
MaxCols == 3

\* The longest selection pattern the column router is tried on.
MaxPatLen == 2

\* The most explicit prior groups a heterogeneous-prior effect is given.
MaxGroups == 2

\* The most effects split_data_into_effects is given.
MaxEffects == 2

-----------------------------------------------------------------------------
(* Python values *)

\* None where a pattern is expected (self.regex), and None where an object is.
None == <<"None">>

NoObject == [type |-> "NoneType"]

\* The characters column names are made of, and the regular-expression
\* metacharacters of the patterns: alternation, any character, end of string.
NameChars == {"x", "y", "1"}

MetaChars == {"|", ".", "$"}

\* The column names of the tables: "x" is a proper prefix of "x1".
ColumnNames == {<<"x">>, <<"x", "1">>, <<"y">>}

\* The sequences over S of length at most n.
SeqsUpTo(S, n) == UNION {[1..k -> S] : k \in 0..n}

\* The sequences of SeqsUpTo(S, n) without a repeated element.
DistinctSeqs(S, n) ==
    {s \in SeqsUpTo(S, n) : \A i, j \in 1..Len(s) : i # j => s[i] # s[j]}

\* The elements of a sequence.
Range(s) == {s[i] : i \in 1..Len(s)}

\* The column lists of the tables: distinct names, in any order.
ColumnLists == DistinctSeqs(ColumnNames, MaxCols)

pd_Index(values) == [type |-> "Index", values |-> values]

py_list(values) == [type |-> "List", values |-> values]

DataFrame(columns, nlevels) ==
    [type |-> "DataFrame", columns |-> columns, nlevels |-> nlevels]

Ok(value) == [status |-> "ok", value |-> value]

Raise(exception) == [status |-> exception]

-----------------------------------------------------------------------------
(* Regular expressions: re.match and Series.str.match *)

\* The alternatives of a pattern: the pattern split at each "|".
RECURSIVE Alternatives(_)
Alternatives(pattern) ==
    IF pattern = <<>> THEN <<(<<>>)>>
    ELSE LET rest == Alternatives(Tail(pattern))
         IN  IF Head(pattern) = "|"
             THEN <<(<<>>)>> \o rest
             ELSE <<(<<Head(pattern)>> \o Head(rest))>> \o Tail(rest)

\* Whether one alternative matches at the start of s: a literal matches
\* itself, "." any one character, "$" the end of the string.
RECURSIVE MatchHere(_, _)
MatchHere(alt, s) ==
    IF alt = <<>> THEN TRUE
    ELSE IF Head(alt) = "$" THEN s = <<>> /\ MatchHere(Tail(alt), s)
    ELSE IF s = <<>> THEN FALSE
    ELSE IF Head(alt) = "." \/ Head(alt) = Head(s)
         THEN MatchHere(Tail(alt), Tail(s))
         ELSE FALSE

\* re.match(pattern, s): some alternative matches at the start of s; the
\* match need not reach the end of s.
re_match(pattern, s) ==
    LET alts == Alternatives(pattern)
    IN  \E i \in 1..Len(alts) : MatchHere(alts[i], s)

\* "|".join(names)
RECURSIVE JoinAlternatives(_)
JoinAlternatives(names) ==
    IF names = <<>> THEN <<>>
    ELSE IF Len(names) = 1 THEN Head(names)
    ELSE Head(names) \o <<"|">> \o JoinAlternatives(Tail(names))

-----------------------------------------------------------------------------
(* The column router *)

\* The patterns the router is tried on: every string of at most MaxPatLen
\* characters and metacharacters, and two longer ones.
Patterns ==
    SeqsUpTo(NameChars \cup MetaChars, MaxPatLen)
        \cup {<<"x", "1", "|", "y">>, <<"x", "$", "|", "y">>}

\* Whether a is a subsequence of b: a's elements, in a's order, at
\* increasing positions of b.
RECURSIVE IsSubsequence(_, _)
IsSubsequence(a, b) ==
    IF a = <<>> THEN TRUE
    ELSE IF b = <<>> THEN FALSE
    ELSE IF Head(a) = Head(b) THEN IsSubsequence(Tail(a), Tail(b))
    ELSE IsSubsequence(a, Tail(b))

\* A variant of match_columns that walks the pattern's alternatives and
\* collects, for each in turn, the columns it matches.
RECURSIVE MatchesByAlternative(_, _)
MatchesByAlternative(alts, values) ==
    IF alts = <<>> THEN <<>>
    ELSE SelectSeq(values, LAMBDA c : MatchHere(Head(alts), c))
             \o MatchesByAlternative(Tail(alts), values)

match_columns_by_pattern(self_regex, columns) ==
    IF self_regex = None THEN Raise("ValueError")
    ELSE IF columns.type \notin {"Index", "List"} THEN Raise("AttributeError")
    ELSE Ok(pd_Index(MatchesByAlternative(Alternatives(self_regex),
                                          columns.values)))

\* BaseEffect.match_columns and AbstractEffect.match_columns (the same
\* code): a list becomes an Index; no pattern is a ValueError; the result
\* is the Index under the boolean mask columns.str.match(regex).  Only an
\* Index has the .str accessor: any other object raises AttributeError.
match_columns(self_regex, columns) ==
    LET index == IF columns.type = "List" THEN pd_Index(columns.values)
                 ELSE columns
    IN  IF self_regex = None THEN Raise("ValueError")
        ELSE IF index.type # "Index" THEN Raise("AttributeError")
        ELSE Ok(pd_Index(SelectSeq(index.values,
                                   LAMBDA c : re_match(self_regex, c))))

\* X[labels] for a list or Index of column labels: the frame of those
\* columns in the order of labels; a label X lacks is a KeyError.
DataFrame_getitem(X, labels) ==
    IF Range(labels) \subseteq Range(X.columns)
    THEN Ok(DataFrame(labels, X.nlevels))
    ELSE Raise("KeyError")

\* The loop of split_data_into_effects over the effects left, with the
\* dict built so far.  match_columns is handed the frame X itself.
RECURSIVE split_loop(_, _, _)
split_loop(X, effects, data) ==
    IF effects = <<>> THEN Ok(data)
    ELSE LET effect == Head(effects)
             matched == match_columns(effect.regex, X)
             subset == DataFrame_getitem(X, matched.value.values)
         IN  IF matched.status # "ok" THEN matched
             ELSE IF subset.status # "ok" THEN subset
             ELSE split_loop(X, Tail(effects),
                             [k \in DOMAIN data \cup {effect.id} |->
                                  IF k = effect.id THEN subset.value
                                  ELSE data[k]])

\* AbstractEffect.split_data_into_effects
split_data_into_effects(X, effects) == split_loop(X, effects, <<>>)

\* The tables: at least one column, and a row index of one level (a single
\* series) or two (series identifier and time).
Tables == {DataFrame(c, n) : c \in ColumnLists \ {<<>>}, n \in {1, 2}}

\* The effects handed to split_data_into_effects.
EffectIds == {"promo", "seasonality"}

RouterEffects ==
    {[id |-> i, regex |-> r] :
        i \in EffectIds, r \in {None, <<"x">>, <<"y">>, <<"x", "$">>}}

\* No BaseEffect and no heterogeneous-prior effect is under test.
NoEffect ==
    /\ cls = "None"
    /\ regex = None
    /\ effect_mode = "None"
    /\ tags = NoObject
    /\ input_feature_column_names = <<>>
    /\ is_initialized = FALSE
    /\ prepared = NoObject
    /\ hetero = NoObject
    /\ hook_saw = NoObject

\* No call was made yet.
NoCall == [op |-> "none"]

\* The calls of match_columns: an effect with pattern p (or none), and the
\* columns as an Index or as a list.
MatchColumnsCalls ==
    {[op |-> "match_columns", regex |-> p, columns |-> columns] :
        p \in Patterns \cup {None},
        columns \in {pd_Index(c) : c \in SeqsUpTo(ColumnNames, MaxCols)}
                        \cup {py_list(c) : c \in SeqsUpTo(ColumnNames, MaxCols)}}

\* The calls of split_data_into_effects.
SplitCalls ==
    {[op |-> "split_data_into_effects", X |-> X, effects |-> effects] :
        X \in Tables, effects \in SeqsUpTo(RouterEffects, MaxEffects)}

\* The router's functions keep no state: a behaviour is one call, its
\* arguments chosen at the start.
InitRouter ==
    /\ NoEffect
    /\ call \in MatchColumnsCalls \cup SplitCalls
    /\ ret = NoObject

CallMatchColumns ==
    /\ call.op = "match_columns"
    /\ ret = NoObject
    /\ ret' = match_columns(call.regex, call.columns)
    /\ UNCHANGED <<effectVars, hetero, call>>

CallSplit ==
    /\ call.op = "split_data_into_effects"
    /\ ret = NoObject
    /\ ret' = split_data_into_effects(call.X, call.effects)
    /\ UNCHANGED <<effectVars, hetero, call>>

NextRouter == CallMatchColumns \/ CallSplit

SpecRouter == InitRouter /\ [][NextRouter]_vars

\* C8: for every column list and every pattern, match_columns returns a
\* subsequence of the input columns in the input's order, and matching the
\* result again with the same pattern returns the same columns.
C8_MatchIsOrderedSubsequenceAndIdempotent ==
    (call.op = "match_columns" /\ call.regex # None /\ ret # NoObject) =>
        /\ ret.status = "ok"
        /\ ret.value.type = "Index"
        /\ IsSubsequence(ret.value.values, call.columns.values)
        /\ match_columns(call.regex, ret.value) = ret

\* A match that keeps some columns and drops others, from a table whose
\* pattern order differs from its column order.
C8_Witness ==
    /\ call.op = "match_columns"
    /\ call.regex = <<"x", "1", "|", "y">>
    /\ call.columns.values = <<(<<"y">>), <<"x">>, <<"x", "1">>>>
    /\ ret = Ok(pd_Index(<<(<<"y">>), <<"x", "1">>>>))

\* The mapping split_data_into_effects is to return: for each effect's
\* id, the frame of the columns its pattern matches among X's columns (a
\* later effect with the same id replaces an earlier one).
ExpectedSplit(X, effects) ==
    [k \in {effects[i].id : i \in 1..Len(effects)} |->
        LET last == CHOOSE i \in 1..Len(effects) :
                        /\ effects[i].id = k
                        /\ \A j \in (i + 1)..Len(effects) : effects[j].id # k
        IN  DataFrame(match_columns(effects[last].regex,
                                    pd_Index(X.columns)).value.values,
                      X.nlevels)]

\* C9: split(table, effects) returns the mapping from each effect's id to
\* the frame of the columns match(columns of table, pattern) selects, and
\* fails when an effect declares no pattern.
C9_SplitReturnsColumnSubsets ==
    (call.op = "split_data_into_effects" /\ ret # NoObject) =>
        IF \E i \in 1..Len(call.effects) : call.effects[i].regex = None
        THEN ret.status # "ok"
        ELSE ret = Ok(ExpectedSplit(call.X, call.effects))

-----------------------------------------------------------------------------
(* The effect contract: BaseEffect, BaseAdditiveOrMultiplicativeEffect and
   LogEffect *)

\* The selection patterns of the effect under test: none, patterns that
\* match some columns, and one ("1") that matches no column.
EffectRegexes ==
    {None, <<"x">>, <<"x", "$">>, <<"y">>, <<"1">>, <<"x", "1", "|", "y">>}

Stages == {"train", "predict"}

\* The tags of an effect class: BaseEffect declares supports_multivariate
\* False and skip_apply_if_no_match True, and a subclass (or set_tags) may
\* declare either value of each.
Tags == [supports_multivariate : BOOLEAN, skip_apply_if_no_match : BOOLEAN]

\* self.get_tag(name)
get_tag(name) == tags[name]

\* Python's dict: {} is the empty function.
EmptyDict == <<>>

\* A tensor of ndim axes whose trailing axis holds, at position j, the
\* values of the column named columns[j].
Tensor(ndim, columns) == [type |-> "Array", ndim |-> ndim, columns |-> columns]

\* prophetverse.utils.series_to_tensor_or_array: shape (time, columns) for a
\* flat table, (series, time, columns) for a hierarchical one.
series_to_tensor_or_array(X) ==
    Tensor(IF X.nlevels = 1 THEN 2 ELSE 3, X.columns)

\* A variant of should_skip_apply that looks only at the tag.
should_skip_apply_tag_only ==
    get_tag("skip_apply_if_no_match")

\* BaseEffect.should_skip_apply
should_skip_apply ==
    IF input_feature_column_names = <<>> /\ get_tag("skip_apply_if_no_match")
    THEN TRUE
    ELSE FALSE

\* BaseEffect._prepare_input_data, the default hook
prepare_input_data_hook(X, stage) == [data |-> series_to_tensor_or_array(X)]

\* The state after construction: BaseEffect.__init__,
\* BaseAdditiveOrMultiplicativeEffect.__init__ and LogEffect.__init__.
Init ==
    /\ cls = "LogEffect"
    /\ regex \in EffectRegexes
    /\ effect_mode \in {"additive", "multiplicative"}
    /\ tags \in Tags
    /\ input_feature_column_names = <<>>
    /\ is_initialized = FALSE
    /\ prepared = NoObject
    /\ call = NoCall
    /\ ret = NoObject
    /\ hetero = NoObject
    /\ hook_saw = NoObject

\* What initialize stores as the selected columns for table X.
SelectedColumns(X) ==
    IF regex = None THEN <<>>
    ELSE match_columns(regex, pd_Index(X.columns)).value.values

\* A variant of initialize's check that rejects no table.
RejectsMultivariateNever(X) == FALSE

\* initialize's first check: the table is rejected when the effect lacks the
\* supports_multivariate tag and the row index has more than one level.
RejectsMultivariate(X) ==
    IF ~get_tag("supports_multivariate") THEN X.nlevels > 1 ELSE FALSE

\* A variant of the hook's view in which the effect is marked initialized
\* before the hook runs.
HookViewAfterMarking(columns) ==
    [input_feature_column_names |-> columns, is_initialized |-> TRUE]

\* What the _initialize hook finds on the effect: it runs after the
\* selected columns are stored and before the effect is marked initialized.
HookView(columns) ==
    [input_feature_column_names |-> columns, is_initialized |-> is_initialized]

\* A variant of initialize that stores the selected columns before it
\* looks at the row index.
initialize_selecting_first(X) ==
    /\ call' = [op |-> "initialize", X |-> X]
    /\ input_feature_column_names' = SelectedColumns(X)
    /\ IF RejectsMultivariate(X)
       THEN /\ ret' = Raise("ValueError")
            /\ UNCHANGED <<is_initialized, prepared, hook_saw>>
       ELSE /\ hook_saw' = HookView(input_feature_column_names')
            /\ is_initialized' = TRUE
            /\ prepared' = NoObject
            /\ ret' = Ok(NoObject)
    /\ UNCHANGED <<cls, regex, effect_mode, tags, hetero>>

\* BaseEffect.initialize(X, scale): the multivariate check, the selected
\* columns, the _initialize hook (which does nothing but is run), the mark.
initialize(X) ==
    /\ call' = [op |-> "initialize", X |-> X]
    /\ IF RejectsMultivariate(X)
       THEN /\ ret' = Raise("ValueError")
            /\ UNCHANGED <<input_feature_column_names, is_initialized,
                           prepared, hook_saw>>
       ELSE /\ input_feature_column_names' = SelectedColumns(X)
            /\ hook_saw' = HookView(input_feature_column_names')
            /\ is_initialized' = TRUE
            /\ prepared' = NoObject
            /\ ret' = Ok(NoObject)
    /\ UNCHANGED <<cls, regex, effect_mode, tags, hetero>>

\* A variant of the narrowing that keeps the selected columns in the
\* table's order.
NarrowInTableOrder(X) ==
    DataFrame_getitem(X, SelectSeq(X.columns,
        LAMBDA c : c \in Range(input_feature_column_names)))

\* X[self.input_feature_column_names]
Narrow(X) == DataFrame_getitem(X, input_feature_column_names)

\* A variant of prepare_input_data without the lifecycle guard.
prepare_input_data_result_unguarded(X, stage) ==
    IF should_skip_apply THEN Ok(EmptyDict)
    ELSE LET narrowed == Narrow(X)
         IN  IF narrowed.status # "ok" THEN narrowed
             ELSE Ok(prepare_input_data_hook(narrowed.value, stage))

\* The outcome of prepare_input_data(X, stage).
prepare_input_data_result(X, stage) ==
    IF ~is_initialized THEN Raise("ValueError")
    ELSE IF should_skip_apply THEN Ok(EmptyDict)
    ELSE LET narrowed == Narrow(X)
         IN  IF narrowed.status # "ok" THEN narrowed
             ELSE Ok(prepare_input_data_hook(narrowed.value, stage))

\* A variant of prepare_input_data that selects the columns again from the
\* table it is given.
prepare_input_data_reselecting(X, stage) ==
    /\ call' = [op |-> "prepare_input_data", X |-> X, stage |-> stage]
    /\ ret' = prepare_input_data_result(X, stage)
    /\ prepared' = IF ret'.status = "ok" THEN ret'.value ELSE prepared
    /\ input_feature_column_names' =
           IF is_initialized THEN SelectedColumns(X)
           ELSE input_feature_column_names
    /\ UNCHANGED <<cls, regex, effect_mode, tags, is_initialized, hetero,
                   hook_saw>>

\* BaseEffect.prepare_input_data(X, stage): no field of the effect is
\* assigned.
prepare_input_data(X, stage) ==
    /\ call' = [op |-> "prepare_input_data", X |-> X, stage |-> stage]
    /\ ret' = prepare_input_data_result(X, stage)
    /\ prepared' = IF ret'.status = "ok" THEN ret'.value ELSE prepared
    /\ UNCHANGED <<cls, regex, effect_mode, tags, input_feature_column_names,
                   is_initialized, hetero, hook_saw>>

\* LogEffect._apply: the "data" tensor is taken from the keyword
\* arguments (a KeyError without it), log_scale and log_rate are sampled,
\* and the effect is scale * log(clip(rate * data + 1, 1e-8, None)).
LogEffect_apply(trend, kwargs) ==
    IF "data" \notin DOMAIN kwargs THEN Raise("KeyError")
    ELSE Ok([type |-> "Array", fn |-> "scale*log(clip(rate*data+1))",
             data |-> kwargs.data])

\* BaseEffect.apply: x = self._apply(trend, **kwargs); return x
BaseEffect_apply(trend, kwargs) == LogEffect_apply(trend, kwargs)

\* A variant of apply that multiplies by the trend in either mode.
apply_result_always_scaled(trend, kwargs) ==
    LET x == BaseEffect_apply(trend, kwargs)
    IN  IF x.status # "ok" THEN x
        ELSE Ok([type |-> "Array", fn |-> "trend*x", trend |-> trend,
                 x |-> x.value])

\* BaseAdditiveOrMultiplicativeEffect.apply
apply_result(trend, kwargs) ==
    LET x == BaseEffect_apply(trend, kwargs)
    IN  IF x.status # "ok" THEN x
        ELSE IF effect_mode = "additive" THEN x
        ELSE Ok([type |-> "Array", fn |-> "trend*x", trend |-> trend,
                 x |-> x.value])

\* The bundles a caller can pass to apply: none, or a "data" tensor of its
\* own making or returned by prepare_input_data.
ApplyBundles ==
    {EmptyDict}
        \cup {[data |-> Tensor(nd, c)] :
                  nd \in {2, 3}, c \in {l \in ColumnLists : Len(l) = 1}}
        \cup (IF prepared = NoObject THEN {} ELSE {prepared})

Trends == {"trend", "trend2"}

\* apply(trend, **kwargs), and the effect called as a function: no field of
\* the effect is read but effect_mode, none is assigned.
apply(trend, kwargs) ==
    /\ call' = [op |-> "apply", trend |-> trend, kwargs |-> kwargs]
    /\ ret' = apply_result(trend, kwargs)
    /\ UNCHANGED <<effectVars, hetero>>

Initialize == \E X \in Tables : initialize(X)

PrepareInputData == \E X \in Tables, stage \in Stages : prepare_input_data(X, stage)

Apply == \E trend \in Trends, kwargs \in ApplyBundles : apply(trend, kwargs)

Next == Initialize \/ PrepareInputData \/ Apply

Spec == Init /\ [][Next]_vars

-----------------------------------------------------------------------------
(* The claims about the effect contract *)

\* C1: apply on an effect that is still Uninitialized fails with an error
\* instead of returning an effect value.
C1_ApplyWhileUninitializedFails ==
    (call.op = "apply" /\ ~is_initialized) => ret.status # "ok"

\* C2: prepare_input_data on an Uninitialized effect fails with an error
\* for every table and either stage, returns no bundle, and leaves the
\* effect Uninitialized with its selected columns unchanged.
C2_PrepareWhileUninitializedFails ==
    [][(call'.op = "prepare_input_data" /\ ~is_initialized) =>
           /\ ret' = Raise("ValueError")
           /\ ~is_initialized'
           /\ input_feature_column_names' = input_feature_column_names
           /\ prepared' = prepared]_vars

\* prepare_input_data at the predict stage has failed on an effect that
\* was never initialized.
C2_Witness ==
    /\ call.op = "prepare_input_data"
    /\ call.stage = "predict"
    /\ ~is_initialized
    /\ ret = Raise("ValueError")

\* C3: on an Initialized effect, an apply that no prepare_input_data
\* preceded ends in an error rather than an effect value.
C3_ApplyWithoutPrepareFails ==
    (call.op = "apply" /\ is_initialized /\ prepared = NoObject) =>
        ret.status # "ok"

\* C4: the selected columns are those initialize matched in its table, and
\* no prepare_input_data or apply call changes them, whatever the columns
\* of the table it is given.
C4_SelectedColumnsFixedAtInitialize ==
    [][/\ (call'.op = "initialize" /\ ret'.status = "ok") =>
              input_feature_column_names' = SelectedColumns(call'.X)
       /\ call'.op \in {"prepare_input_data", "apply"} =>
              input_feature_column_names' = input_feature_column_names]_vars

\* prepare_input_data has succeeded on a table with a column ("x1") the
\* pattern matches and the initialization table lacked.
C4_Witness ==
    /\ is_initialized
    /\ regex = <<"x">>
    /\ input_feature_column_names = <<(<<"x">>)>>
    /\ call.op = "prepare_input_data"
    /\ call.X.columns = <<(<<"x", "1">>), <<"x">>>>
    /\ ret.status = "ok"

\* C5: after initialize, prepare_input_data on a table whose columns
\* include the selected columns, in any order, does not fail; its bundle is
\* the empty skip bundle or one apply accepts, whose data is the table
\* narrowed to the selected columns in the order captured by initialize.
C5_PrepareOnSupersetSucceeds ==
    (/\ call.op = "prepare_input_data"
     /\ is_initialized
     /\ Range(input_feature_column_names) \subseteq Range(call.X.columns)) =>
        /\ ret.status = "ok"
        /\ \/ ret.value = EmptyDict
           \/ /\ DOMAIN ret.value = {"data"}
              /\ ret.value.data.columns = input_feature_column_names
              /\ ret.value.data.ndim = IF call.X.nlevels = 1 THEN 2 ELSE 3
              /\ \A trend \in Trends : apply_result(trend, ret.value).status = "ok"

\* prepare_input_data has narrowed a table that holds the selected columns
\* in another order, among others.
C5_Witness ==
    /\ is_initialized
    /\ input_feature_column_names = <<(<<"x", "1">>), <<"y">>>>
    /\ call.op = "prepare_input_data"
    /\ call.X.columns = <<(<<"y">>), <<"x">>, <<"x", "1">>>>
    /\ ret = Ok([data |-> Tensor(2, <<(<<"x", "1">>), <<"y">>>>)])

\* C6: on an Initialized effect, prepare_input_data returns the empty
\* bundle exactly when no column is selected and the skip tag is set; an
\* effect with no pattern and the skip tag returns it for every table and
\* stage.
C6_EmptyBundleIffSkip ==
    (call.op = "prepare_input_data" /\ is_initialized) =>
        /\ ret = Ok(EmptyDict) <=>
               (/\ input_feature_column_names = <<>>
                /\ get_tag("skip_apply_if_no_match"))
        /\ (regex = None /\ get_tag("skip_apply_if_no_match")) =>
               ret = Ok(EmptyDict)

\* An effect whose pattern matched no column of its table has returned the
\* empty bundle.
C6_Witness ==
    /\ is_initialized
    /\ regex = <<"1">>
    /\ get_tag("skip_apply_if_no_match")
    /\ call.op = "prepare_input_data"
    /\ call.stage = "predict"
    /\ ret = Ok(EmptyDict)

\* C7: initialize rejects a table exactly when its row index has more than
\* one level and the effect does not declare multivariate support; every
\* other table is accepted.
C7_InitializeRejectsMultivariate ==
    call.op = "initialize" =>
        IF call.X.nlevels > 1 /\ ~get_tag("supports_multivariate")
        THEN ret = Raise("ValueError")
        ELSE ret.status = "ok" /\ is_initialized

\* initialize has rejected a two-level table.
C7_Witness ==
    /\ call.op = "initialize"
    /\ call.X.nlevels = 2
    /\ ~get_tag("supports_multivariate")
    /\ ret = Raise("ValueError")

-----------------------------------------------------------------------------
(* LinearHeterogenousPriorsEffect: the prior groups and the permutation
   matrix *)

\* The explicit group patterns an effect is constructed with.
GroupPatterns ==
    {<<"x">>, <<"x", "1">>, <<"x", "$">>, <<"y">>, <<"1">>, <<".">>}

\* The order of Python strings, character by character (a proper prefix
\* comes first): "1" < "x" < "y".
CharOrder == <<"1", "x", "y">>

CharRank(c) == CHOOSE k \in 1..Len(CharOrder) : CharOrder[k] = c

RECURSIVE StrLess(_, _)
StrLess(a, b) ==
    IF b = <<>> THEN FALSE
    ELSE IF a = <<>> THEN TRUE
    ELSE IF Head(a) = Head(b) THEN StrLess(Tail(a), Tail(b))
    ELSE CharRank(Head(a)) < CharRank(Head(b))

\* The elements of a set of names as a sorted sequence.
RECURSIVE Sorted(_)
Sorted(S) ==
    IF S = {} THEN <<>>
    ELSE LET least == CHOOSE a \in S : \A b \in S \ {a} : StrLess(a, b)
         IN  <<least>> \o Sorted(S \ {least})

\* pd.Index.difference(other): the values not in other, sorted.
Index_difference(values, other) == Sorted(Range(values) \ other)

\* [column for column in self.feature_names if re.match(regex, column)]
MatchedFeatures(pattern, feature_names) ==
    SelectSeq(feature_names, LAMBDA column : re_match(pattern, column))

\* A variant of the loop that claims columns without looking for a column
\* claimed before.
RECURSIVE ClaimColumnsUnchecked(_, _, _)
ClaimColumnsUnchecked(priors, feature_names, already_set_columns) ==
    IF priors = <<>> THEN Ok(already_set_columns)
    ELSE ClaimColumnsUnchecked(
             Tail(priors), feature_names,
             already_set_columns
                 \cup Range(SelectSeq(feature_names,
                       LAMBDA column : re_match(Head(priors).regex, column))))

\* The loop of features_with_default_priors over the explicit patterns
\* left, with the columns claimed so far: a pattern that matches a claimed
\* column raises ValueError; the loop returns the set of claimed columns.
RECURSIVE ClaimColumns(_, _, _)
ClaimColumns(priors, feature_names, already_set_columns) ==
    IF priors = <<>> THEN Ok(already_set_columns)
    ELSE LET columns == Range(MatchedFeatures(Head(priors).regex, feature_names))
         IN  IF already_set_columns \cap columns # {}
             THEN [status |-> "ValueError",
                   columns |-> already_set_columns \cap columns]
             ELSE ClaimColumns(Tail(priors), feature_names,
                               already_set_columns \cup columns)

\* LinearHeterogenousPriorsEffect.features_with_default_priors: the pattern
\* for the columns no explicit pattern claimed, "|".join of their names.
features_with_default_priors(exogenous_priors, feature_names) ==
    LET claimed == ClaimColumns(exogenous_priors, feature_names, {})
    IN  IF claimed.status # "ok" THEN claimed
        ELSE Ok(JoinAlternatives(Index_difference(feature_names, claimed.value)))

\* The position of a column among the feature names, from 1
\* (feature_names.get_loc(column) is this position less one).
get_loc(feature_names, column) ==
    CHOOSE k \in 1..Len(feature_names) : feature_names[k] = column

\* A variant of the unit columns that places the k-th coefficient of a
\* group at feature k.
UnitColumnsInOrder(n, idx) ==
    [j \in 1..Len(idx) |-> [i \in 1..n |-> IF i = j THEN 1 ELSE 0]]

\* jnp.eye(n)[idx].T, as the sequence of its columns: one unit vector of
\* length n for each position of idx.
UnitColumns(n, idx) ==
    [j \in 1..Len(idx) |-> [i \in 1..n |-> IF i = idx[j] THEN 1 ELSE 0]]

\* The loop of set_distributions_and_permutation_matrix over the groups
\* left, the i-th first: a group that matches no feature is skipped, any
\* other appends its unit columns and its named distribution.
RECURSIVE GroupLoop(_, _, _, _, _)
GroupLoop(priors, i, feature_names, matrix, dists) ==
    IF priors = <<>> THEN [matrix |-> matrix, dists |-> dists]
    ELSE LET columns == MatchedFeatures(Head(priors).regex, feature_names)
             idx == [k \in 1..Len(columns) |-> get_loc(feature_names, columns[k])]
             name == [base |-> "exogenous_coefficients", index |-> i]
             distribution == [prior |-> Head(priors).prior, size |-> Len(idx)]
         IN  IF Len(idx) = 0
             THEN GroupLoop(Tail(priors), i + 1, feature_names, matrix, dists)
             ELSE GroupLoop(Tail(priors), i + 1, feature_names,
                            matrix \o UnitColumns(Len(feature_names), idx),
                            Append(dists, [name |-> name,
                                           distribution |-> distribution]))

DefaultPrior == "default_exogenous_prior"

\* LinearHeterogenousPriorsEffect.set_distributions_and_permutation_matrix:
\* the fields it sets, or the exception it raises.  Without feature names
\* it returns before setting any field.
set_distributions_and_permutation_matrix(exogenous_priors, feature_names) ==
    IF Len(feature_names) = 0 THEN Ok(<<>>)
    ELSE LET remaining ==
                 features_with_default_priors(exogenous_priors, feature_names)
         IN  IF remaining.status # "ok" THEN remaining
             ELSE LET priors ==
                          IF remaining.value # <<>>
                          THEN Append(exogenous_priors,
                                      [regex |-> remaining.value,
                                       prior |-> DefaultPrior])
                          ELSE exogenous_priors
                      built == GroupLoop(priors, 0, feature_names, <<>>, <<>>)
                  IN  IF built.matrix = <<>> THEN Raise("ValueError")
                      ELSE Ok([exogenous_permutation_matrix |-> built.matrix,
                               exogenous_dists |-> built.dists])

\* The explicit prior groups: a dict, so its patterns are distinct, in
\* declaration order.
ExplicitPriors ==
    {[k \in 1..Len(ps) |-> [regex |-> ps[k], prior |-> "Normal(0, 1)"]] :
        ps \in DistinctSeqs(GroupPatterns, MaxGroups)}

\* The constructor calls.
ConstructCalls ==
    {[op |-> "LinearHeterogenousPriorsEffect", exogenous_priors |-> priors,
      feature_names |-> names] :
        priors \in ExplicitPriors, names \in ColumnLists}

\* A behaviour constructs one effect, its arguments chosen at the start.
InitHetero ==
    /\ cls = "None"
    /\ regex = None
    /\ effect_mode \in {"additive", "multiplicative"}
    /\ tags = NoObject
    /\ input_feature_column_names = <<>>
    /\ is_initialized = FALSE
    /\ prepared = NoObject
    /\ hetero = NoObject
    /\ hook_saw = NoObject
    /\ call \in ConstructCalls
    /\ ret = NoObject

\* LinearHeterogenousPriorsEffect.__init__: the arguments are stored, then
\* set_distributions_and_permutation_matrix runs; an exception leaves no
\* object.
Construct ==
    /\ call.op = "LinearHeterogenousPriorsEffect"
    /\ ret = NoObject
    /\ LET fields == set_distributions_and_permutation_matrix(
                         call.exogenous_priors, call.feature_names)
       IN  IF fields.status # "ok"
           THEN /\ ret' = fields
                /\ hetero' = NoObject
           ELSE /\ ret' = Ok(NoObject)
                /\ hetero' = [type |-> "LinearHeterogenousPriorsEffect",
                              exogenous_priors |-> call.exogenous_priors,
                              feature_names |-> call.feature_names,
                              fields |-> fields.value]
    /\ UNCHANGED <<effectVars, call>>

\* The values a coefficient is drawn with.
CoefValues == {0, 1, 2}

\* The draws get_coefficients can see: for each distribution, in order, a
\* vector of as many values as the group has columns.
RECURSIVE SampleSets(_)
SampleSets(dists) ==
    IF dists = <<>> THEN {<<>>}
    ELSE {<<v>> \o rest :
              v \in [1..Head(dists).distribution.size -> CoefValues],
              rest \in SampleSets(Tail(dists))}

\* jnp.concatenate(parameters, axis=0) of column vectors
RECURSIVE Concatenate(_)
Concatenate(parameters) ==
    IF parameters = <<>> THEN <<>>
    ELSE Head(parameters) \o Concatenate(Tail(parameters))

\* matrix @ vector, the matrix given as the sequence of its columns.
RECURSIVE MatVec(_, _, _)
MatVec(matrix, vector, n) ==
    IF matrix = <<>> THEN [i \in 1..n |-> 0]
    ELSE LET rest == MatVec(Tail(matrix), Tail(vector), n)
         IN  [i \in 1..n |-> Head(matrix)[i] * Head(vector) + rest[i]]

\* LinearHeterogenousPriorsEffect.get_coefficients, with the vector each
\* distribution is sampled as: the permutation matrix times the
\* concatenation of the samples.  The fields are not set on an effect
\* constructed without feature names.
get_coefficients(effect, samples) ==
    IF "exogenous_dists" \notin DOMAIN effect.fields
    THEN Raise("AttributeError")
    ELSE Ok(MatVec(effect.fields.exogenous_permutation_matrix,
                   Concatenate(samples), Len(effect.feature_names)))

\* One call of get_coefficients on the constructed effect: each of its
\* distributions is sampled, under the name of its entry.
GetCoefficients ==
    /\ call.op = "LinearHeterogenousPriorsEffect"
    /\ hetero # NoObject
    /\ \E samples \in (IF "exogenous_dists" \in DOMAIN hetero.fields
                        THEN SampleSets(hetero.fields.exogenous_dists)
                        ELSE {<<>>}) :
           /\ call' = [op |-> "get_coefficients", samples |-> samples]
           /\ ret' = get_coefficients(hetero, samples)
    /\ UNCHANGED <<effectVars, hetero>>

NextHetero == Construct \/ GetCoefficients

SpecHetero == InitHetero /\ [][NextHetero]_vars

\* The sum of a sequence of numbers.
RECURSIVE Sum(_)
Sum(s) == IF s = <<>> THEN 0 ELSE Head(s) + Sum(Tail(s))

\* The columns the explicit patterns of an effect match.
ExplicitlyClaimed(effect) ==
    UNION {Range(MatchedFeatures(effect.exogenous_priors[k].regex,
                                 effect.feature_names)) :
               k \in 1..Len(effect.exogenous_priors)}

\* C10: when construction succeeds, every feature column is in exactly one
\* prior group, the default group included: the permutation matrix has
\* exactly one 1 for each feature and is square, and the default group's
\* pattern matches exactly the features no explicit pattern claimed.
C10_EveryFeatureInExactlyOneGroup ==
    (hetero # NoObject /\ hetero.feature_names # <<>>) =>
        LET n == Len(hetero.feature_names)
            matrix == hetero.fields.exogenous_permutation_matrix
            remaining == features_with_default_priors(
                             hetero.exogenous_priors, hetero.feature_names).value
        IN  /\ Len(matrix) = n
            /\ \A i \in 1..n :
                   Sum([j \in 1..Len(matrix) |-> matrix[j][i]]) = 1
            /\ remaining # <<>> =>
                   Range(MatchedFeatures(remaining, hetero.feature_names))
                       = Range(hetero.feature_names) \ ExplicitlyClaimed(hetero)

\* The columns the explicit patterns before the j-th have claimed and the
\* j-th matches too.
OverlapAt(priors, feature_names, j) ==
    (UNION {Range(MatchedFeatures(priors[i].regex, feature_names)) :
                i \in 1..(j - 1)})
        \cap Range(MatchedFeatures(priors[j].regex, feature_names))

\* C11: two explicit patterns that match a common feature column make the
\* construction fail with an error naming the common columns, raised at the
\* first pattern, in declaration order, that matches a column an earlier
\* one claimed; no effect with overlapping explicit groups is constructed.
C11_OverlappingGroupsRejected ==
    (call.op = "LinearHeterogenousPriorsEffect" /\ ret # NoObject) =>
        LET priors == call.exogenous_priors
            names == call.feature_names
            late == {j \in 1..Len(priors) : OverlapAt(priors, names, j) # {}}
        IN  IF late # {}
            THEN LET first == CHOOSE j \in late : \A k \in late : j <= k
                 IN  /\ ret = [status |-> "ValueError",
                               columns |-> OverlapAt(priors, names, first)]
                     /\ hetero = NoObject
            ELSE ret.status = "ok" /\ hetero # NoObject

\* The patterns "x" and "x1" both match the feature "x1": the construction
\* has failed, naming it.
C11_Witness ==
    /\ call.op = "LinearHeterogenousPriorsEffect"
    /\ call.feature_names = <<(<<"x">>), <<"x", "1">>>>
    /\ Len(call.exogenous_priors) = 2
    /\ call.exogenous_priors[1].regex = <<"x">>
    /\ call.exogenous_priors[2].regex = <<"x", "1">>
    /\ ret = [status |-> "ValueError", columns |-> {<<"x", "1">>}]
    /\ hetero = NoObject

\* The groups of an effect that hold a coefficient: for each pattern that
\* matches a feature, the default pattern last, the positions of the
\* features it matches.
GroupPositions(effect) ==
    LET remaining == features_with_default_priors(
                         effect.exogenous_priors, effect.feature_names).value
        patterns == [k \in 1..Len(effect.exogenous_priors) |->
                         effect.exogenous_priors[k].regex]
                        \o (IF remaining # <<>> THEN <<remaining>> ELSE <<>>)
        positions == [k \in 1..Len(patterns) |->
                         LET columns == MatchedFeatures(patterns[k],
                                                        effect.feature_names)
                         IN  [m \in 1..Len(columns) |->
                                  get_loc(effect.feature_names, columns[m])]]
    IN  SelectSeq(positions, LAMBDA idx : idx # <<>>)

\* The coefficients of the groups placed at feature i, summed.
Scattered(groups, samples, i) ==
    Sum([g \in 1..Len(groups) |->
            Sum([m \in 1..Len(groups[g]) |->
                    IF groups[g][m] = i THEN samples[g][m] ELSE 0])])

\* C12: the permutation matrix times the concatenation of the groups'
\* coefficient vectors, in declaration order with the default group last,
\* is the vector that has each group's coefficients at the group's feature
\* positions, summed over the groups; when the groups partition the
\* features, feature i gets exactly the coefficient drawn for it.
C12_PlacementRoundTrip ==
    (call.op = "get_coefficients" /\ hetero.feature_names # <<>>) =>
        LET groups == GroupPositions(hetero)
            n == Len(hetero.feature_names)
        IN  /\ ret.status = "ok"
            /\ Len(call.samples) = Len(groups)
            /\ \A i \in 1..n :
                   ret.value[i] = Scattered(groups, call.samples, i)
            /\ (\A i \in 1..n :
                    Cardinality({g \in 1..Len(groups) :
                                     i \in Range(groups[g])}) = 1) =>
                   \A g \in 1..Len(groups) :
                       \A m \in 1..Len(groups[g]) :
                           ret.value[groups[g][m]] = call.samples[g][m]

\* The group of "y" is declared before the default group of "x": the
\* coefficient 1 of "y" and the coefficient 2 of "x" have changed places.
C12_Witness ==
    /\ call.op = "get_coefficients"
    /\ hetero.feature_names = <<(<<"x">>), <<"y">>>>
    /\ Len(hetero.exogenous_priors) = 1
    /\ hetero.exogenous_priors[1].regex = <<"y">>
    /\ call.samples = <<(<<1>>), <<2>>>>
    /\ ret = Ok(<<2, 1>>)

\* The raw effect of the subclass for a bundle, which the trend is no part
\* of.
RawEffect(kwargs) ==
    [type |-> "Array", fn |-> "scale*log(clip(rate*data+1))",
     data |-> kwargs.data]

\* C13: in multiplicative mode apply returns the element-wise product of
\* the trend and the raw effect, in additive mode the raw effect itself,
\* whatever the trend; the mode is set at construction and no operation
\* changes it.
C13_ModeDecidesScaling ==
    [][/\ effect_mode' = effect_mode
       /\ (call'.op = "apply" /\ ret'.status = "ok") =>
              IF effect_mode = "additive"
              THEN ret'.value = RawEffect(call'.kwargs)
              ELSE ret'.value = [type |-> "Array", fn |-> "trend*x",
                                 trend |-> call'.trend,
                                 x |-> RawEffect(call'.kwargs)]]_vars

\* An additive effect was applied to the second trend and returned the
\* raw effect of its data.
C13_Witness ==
    /\ effect_mode = "additive"
    /\ call.op = "apply"
    /\ call.trend = "trend2"
    /\ ret.status = "ok"
    /\ ret.value = RawEffect(call.kwargs)
    /\ Len(ret.value.data.columns) = 2

\* C18: an effect starts uninitialized; a successful initialize stores the
\* selected columns, then runs the hook, which finds the new columns on an
\* effect this call has not yet marked, then marks the effect initialized;
\* an initialized effect never becomes uninitialized again.
C18_HookRunsBetweenSelectAndMark ==
    /\ ~is_initialized
    /\ [][/\ (call'.op = "initialize" /\ ret'.status = "ok") =>
                 /\ hook_saw' = [input_feature_column_names |->
                                     input_feature_column_names',
                                 is_initialized |-> is_initialized]
                 /\ is_initialized'
          /\ is_initialized => is_initialized']_vars

\* The first initialize of an effect selected a column: its hook found the
\* column stored and the effect not yet marked, and the effect is now
\* marked.
C18_Witness ==
    /\ call.op = "initialize"
    /\ ret.status = "ok"
    /\ is_initialized
    /\ input_feature_column_names # <<>>
    /\ hook_saw = [input_feature_column_names |-> input_feature_column_names,
                   is_initialized |-> FALSE]

\* C19: an initialize that is rejected for a table with a multi-level row
\* index leaves the lifecycle state and the selected columns as they were,
\* on an effect never initialized and on one initialized before.
C19_RejectedInitializeChangesNothing ==
    [][(call'.op = "initialize" /\ ret'.status # "ok") =>
           /\ call'.X.nlevels > 1
           /\ UNCHANGED <<is_initialized, input_feature_column_names,
                          hook_saw>>]_vars

\* An initialized effect with a selected column has rejected a table.
C19_Witness ==
    /\ call.op = "initialize"
    /\ ret = Raise("ValueError")
    /\ call.X.nlevels = 2
    /\ is_initialized
    /\ input_feature_column_names # <<>>
    /\ Range(input_feature_column_names) # Range(SelectedColumns(call.X))

-----------------------------------------------------------------------------
(* The names of the random variables: two effects declare variables in one
   model trace. *)

\* The most variables the two effects declare in one trace.
MaxSites == 2

\* The ids given to effects; "" is the default of __init__.
SampleIds ==
    {"", "_", "promo", "promo_", "promo__log", "seasonality"}

\* The names the effects pass to self.sample.
DeclaredNames ==
    {"log_scale", "log_rate", "coefs", "half_max", "slope", "max_effect",
     "exogenous_coefficients_exogenous_coefficients_0",
     "exogenous_coefficients_exogenous_coefficients_1"}

\* A variant of sample that declares the variable under the bare name.
sample_unprefixed(self_id, name) == name

\* AbstractEffect.sample / BaseEffect.sample: the name of the site,
\* f"{self.id}__{name}"
sample(self_id, name) == self_id \o "__" \o name

\* Two effects are constructed with their ids; the trace is empty.
InitTrace ==
    /\ NoEffect
    /\ call \in {[op |-> "trace", ids |-> <<a, b>>] : a, b \in SampleIds}
    /\ ret = [type |-> "trace", sites |-> <<>>]

\* One effect declares one random variable.
Sample ==
    /\ call.op = "trace"
    /\ Len(ret.sites) < MaxSites
    /\ \E k \in 1..2, name \in DeclaredNames :
           ret' = [ret EXCEPT !.sites =
                       Append(@, [effect |-> k, name |-> name,
                                  site |-> sample(call.ids[k], name)])]
    /\ UNCHANGED <<effectVars, hetero, call>>

NextTrace == Sample

SpecTrace == InitTrace /\ [][NextTrace]_vars

\* C14: every random variable an effect declares is named
\* "<effect id>__<name>", and variables declared by effects with distinct
\* ids have distinct names.
C14_SiteNamesPrefixedByEffectId ==
    call.op = "trace" =>
        \A i, j \in 1..Len(ret.sites) :
            LET a == ret.sites[i]
                b == ret.sites[j]
            IN  /\ a.site = call.ids[a.effect] \o "__" \o a.name
                /\ call.ids[a.effect] # call.ids[b.effect] => a.site # b.site

\* The effects "promo" and "seasonality" have both declared "coefs".
C14_Witness ==
    /\ call.op = "trace"
    /\ call.ids = <<"promo", "seasonality">>
    /\ Len(ret.sites) = 2
    /\ ret.sites[1] = [effect |-> 1, name |-> "coefs", site |-> "promo__coefs"]
    /\ ret.sites[2] = [effect |-> 2, name |-> "coefs",
                       site |-> "seasonality__coefs"]

-----------------------------------------------------------------------------
(* The linear effects: the raw value is the data tensor times the column of
   the coefficients.  An array is its number of dimensions and its nested
   rows. *)

Array(ndim, v) == [type |-> "Array", ndim |-> ndim, v |-> v]

\* a.shape
shape(a) ==
    IF a.ndim = 1 THEN <<Len(a.v)>>
    ELSE IF a.ndim = 2 THEN <<Len(a.v), Len(a.v[1])>>
    ELSE <<Len(a.v), Len(a.v[1]), Len(a.v[1][1])>>

\* jnp.expand_dims(a, axis=-1) of a vector
expand_dims_last(a) == Array(2, [i \in 1..Len(a.v) |-> <<a.v[i]>>])

\* jnp.expand_dims(a, axis=0) of a matrix
expand_dims_first(a) == Array(3, <<a.v>>)

\* a.reshape((-1, 1)), as the sequence of the column's entries
reshape_column(a) ==
    IF a.ndim = 1 THEN a.v
    ELSE IF a.ndim = 2 THEN Concatenate(a.v)
    ELSE Concatenate([i \in 1..Len(a.v) |-> Concatenate(a.v[i])])

\* rows @ column for one matrix
MatrixTimesColumn(rows, column) ==
    [t \in 1..Len(rows) |->
        <<Sum([j \in 1..Len(column) |-> rows[t][j] * column[j]])>>]

\* data @ column, broadcast over a leading series dimension; the trailing
\* dimension of data must be the length of the column.
matmul(data, column) ==
    IF shape(data)[data.ndim] # Len(column) THEN Raise("TypeError")
    ELSE IF data.ndim = 2 THEN Ok(Array(2, MatrixTimesColumn(data.v, column)))
    ELSE Ok(Array(3, [s \in 1..Len(data.v) |->
                          MatrixTimesColumn(data.v[s], column)]))

\* effects.py: matrix_multiplication
matrix_multiplication(data, coefficients) ==
    matmul(data, reshape_column(coefficients))

\* prophetverse.utils.algebric_operations.matrix_multiplication, which
\* effect_apply imports: the coefficients as a column, matrix-multiplied
\* against the data, batched over a leading series dimension.
algebric_operations_matrix_multiplication(data, coefficients) ==
    matmul(data, reshape_column(coefficients))

\* trend * x, kept as a term
Times(trend, x) ==
    IF x.status # "ok" THEN x
    ELSE Ok([type |-> "Array", fn |-> "trend*x", trend |-> trend,
             x |-> x.value])

\* effects.py: additive_effect(trend, data, coefficients)
additive_effect(trend, data, coefficients) ==
    matrix_multiplication(data, coefficients)

\* effects.py: multiplicative_effect(trend, data, coefficients)
multiplicative_effect(trend, data, coefficients) ==
    Times(trend, matrix_multiplication(data, coefficients))

\* effect_apply: data.shape[1] != coefficients.shape[0]
DimensionsDiffer(data, coefficients) ==
    shape(data)[2] # shape(coefficients)[1]

\* effect_apply.additive_effect(data, coefficients), called with the
\* positional arguments args: two parameters.
effect_apply_additive_effect(args) ==
    IF Len(args) # 2 THEN Raise("TypeError")
    ELSE IF DimensionsDiffer(args[1], args[2]) THEN Raise("ValueError")
    ELSE algebric_operations_matrix_multiplication(args[1], args[2])

\* effect_apply.multiplicative_effect(trend, data, coefficients), called
\* with the positional arguments args: three parameters.
effect_apply_multiplicative_effect(args) ==
    IF Len(args) # 3 THEN Raise("TypeError")
    ELSE IF DimensionsDiffer(args[2], args[3]) THEN Raise("ValueError")
    ELSE Times(args[1],
               algebric_operations_matrix_multiplication(args[2], args[3]))

\* LinearEffect.compute_effect after the draw: the coefficients become a
\* column, with a leading axis for batched data.
ExpandCoefficients(data, coefficients) ==
    LET column == IF coefficients.ndim = 1 THEN expand_dims_last(coefficients)
                  ELSE coefficients
    IN  IF data.ndim = 3 /\ column.ndim = 2 THEN expand_dims_first(column)
        ELSE column

\* effects.py: LinearEffect.compute_effect(trend, data), with the vector
\* "coefs" is sampled as.
effects_LinearEffect_compute_effect(trend, data, coefs) ==
    LET coefficients == ExpandCoefficients(data, coefs)
    IN  IF effect_mode = "multiplicative"
        THEN multiplicative_effect(trend, data, coefficients)
        ELSE additive_effect(trend, data, coefficients)

\* effects/effects.py: LinearEffect.compute_effect(trend, data), with the
\* vector "coefs" is sampled as; the functions are those of effect_apply.
effects_effects_LinearEffect_compute_effect(trend, data, coefs) ==
    LET coefficients == ExpandCoefficients(data, coefs)
    IN  IF effect_mode = "multiplicative"
        THEN effect_apply_multiplicative_effect(<<trend, data, coefficients>>)
        ELSE effect_apply_additive_effect(<<trend, data, coefficients>>)

\* The (time, features) shapes of the data.
FlatShapes == {<<1, 1>>, <<1, 2>>, <<2, 1>>, <<3, 2>>}

\* The values of the data.
DataValues == {0, 1}

FlatArrays ==
    UNION {{Array(2, v) : v \in [1..sh[1] -> [1..sh[2] -> DataValues]]} :
               sh \in FlatShapes}

\* Batched data: one series, or two series of one or two time steps.
BatchedArrays ==
    {Array(3, <<a.v>>) : a \in FlatArrays}
        \cup UNION {{Array(3, <<a.v, b.v>>) :
                         b \in {x \in FlatArrays : shape(x) = shape(a)}} :
                        a \in {x \in FlatArrays : shape(x)[1] < 3}}

DataArrays == FlatArrays \cup BatchedArrays

\* The coefficient vectors handed to effect_apply.
MaxCoefs == 3

CoefVectors ==
    UNION {{Array(1, v) : v \in [1..n -> {1, 2}]} : n \in 1..MaxCoefs}

\* The draw of "coefs": a vector of n_features values.
SampleCoefs(n_features) ==
    {Array(1, v) : v \in [1..n_features -> CoefValues]}

LinearClasses == {"effects.LinearEffect", "effects.effects.LinearEffect"}

\* A linear effect of either module in either mode, or no effect and the
\* functions of effect_apply alone; one call is to be made.
InitLinear ==
    /\ regex = None
    /\ tags = NoObject
    /\ input_feature_column_names = <<>>
    /\ is_initialized = FALSE
    /\ prepared = NoObject
    /\ hetero = NoObject
    /\ hook_saw = NoObject
    /\ ret = NoObject
    /\ \/ /\ cls = "None"
          /\ effect_mode = "None"
          /\ call \in {[op |-> "additive_effect", data |-> d,
                        coefficients |-> c] :
                           d \in DataArrays, c \in CoefVectors}
                  \cup {[op |-> "multiplicative_effect", trend |-> "trend",
                         data |-> d, coefficients |-> c] :
                            d \in DataArrays, c \in CoefVectors}
       \/ /\ cls \in LinearClasses
          /\ effect_mode \in {"additive", "multiplicative"}
          /\ call \in {[op |-> "compute_effect", trend |-> "trend",
                        data |-> d] : d \in DataArrays}

\* effect_apply.additive_effect(data, coefficients)
CallAdditiveEffect ==
    /\ call.op = "additive_effect"
    /\ ret = NoObject
    /\ ret' = effect_apply_additive_effect(<<call.data, call.coefficients>>)
    /\ UNCHANGED <<effectVars, hetero, call>>

\* effect_apply.multiplicative_effect(trend, data, coefficients)
CallMultiplicativeEffect ==
    /\ call.op = "multiplicative_effect"
    /\ ret = NoObject
    /\ ret' = effect_apply_multiplicative_effect(
                  <<call.trend, call.data, call.coefficients>>)
    /\ UNCHANGED <<effectVars, hetero, call>>

\* LinearEffect.compute_effect(trend, data): n_features = data.shape[-1]
\* coefficients are drawn.
ComputeEffect ==
    /\ call.op = "compute_effect"
    /\ ret = NoObject
    /\ \E coefs \in SampleCoefs(shape(call.data)[call.data.ndim]) :
           /\ call' = [op |-> "compute_effect", trend |-> call.trend,
                       data |-> call.data, coefs |-> coefs]
           /\ ret' = IF cls = "effects.LinearEffect"
                     THEN effects_LinearEffect_compute_effect(
                              call.trend, call.data, coefs)
                     ELSE effects_effects_LinearEffect_compute_effect(
                              call.trend, call.data, coefs)
    /\ UNCHANGED <<effectVars, hetero>>

NextLinear == CallAdditiveEffect \/ CallMultiplicativeEffect \/ ComputeEffect

SpecLinear == InitLinear /\ [][NextLinear]_vars

\* C15: the functions of effect_apply fail with the dimension-mismatch
\* error exactly when the trailing dimension of the data differs from the
\* leading dimension of the coefficients, for flat and for batched data;
\* a linear effect, whose coefficients are drawn to the data's trailing
\* dimension, is never rejected.
C15_MismatchIffTrailingDimensionDiffers ==
    ret # NoObject =>
        /\ call.op \in {"additive_effect", "multiplicative_effect"} =>
               (ret.status = "ValueError"
                    <=> shape(call.data)[call.data.ndim]
                            # shape(call.coefficients)[1])
        /\ call.op = "compute_effect" => ret.status # "ValueError"

\* C16: a linear effect in additive mode over flat data of n columns draws
\* n coefficients and returns, for every time step t, the sum over the
\* columns j of data[t][j] * coefs[j], without raising.
C16_AdditiveLinearIsWeightedSum ==
    (call.op = "compute_effect" /\ ret # NoObject
         /\ effect_mode = "additive" /\ call.data.ndim = 2) =>
        /\ Len(call.coefs.v) = shape(call.data)[2]
        /\ ret = Ok(Array(2, [t \in 1..Len(call.data.v) |->
                       <<Sum([j \in 1..Len(call.coefs.v) |->
                                 call.data.v[t][j] * call.coefs.v[j]])>>]))

-----------------------------------------------------------------------------
(* The log effects: scale * log(rate * data + 1), element by element.  The
   covariate values and the rate are integers; the argument of the
   logarithm is counted in units of the clip's floor, 1e-8. *)

\* 1, in units of the floor 1e-8 of the clip
OneInFloors == 100000000

\* The covariate values: negative, zero and positive.
Covariates == -3..3

\* The most time steps of the data of a log effect.
MaxLogSteps == 2

LogData == UNION {[1..n -> Covariates] : n \in 1..MaxLogSteps}

\* The values log_rate is sampled as: the prior's support is positive.
Rates == {1, 2}

\* jnp.log(x), x in floors: finite for a positive argument, -inf at zero,
\* nan below.
jnp_log(x) ==
    [log_argument |-> x,
     value |-> IF x > 0 THEN "finite" ELSE IF x = 0 THEN "-inf" ELSE "nan"]

\* jnp.clip(x, 1e-8, None), x in floors
jnp_clip(x) == IF x < 1 THEN 1 ELSE x

\* log.py: scale * jnp.log(jnp.clip(rate * data + 1, 1e-8, None))
ClippedLog(rate, data) ==
    [type |-> "Array", fn |-> "scale*log",
     v |-> [t \in 1..Len(data) |->
               jnp_log(jnp_clip((rate * data[t] + 1) * OneInFloors))]]

\* effects.py and effects/effects.py: scale * jnp.log(rate * data + 1)
UnclippedLog(rate, data) ==
    [type |-> "Array", fn |-> "scale*log",
     v |-> [t \in 1..Len(data) |->
               jnp_log((rate * data[t] + 1) * OneInFloors)]]

\* effects/log.py: LogEffect._apply(trend, data=data), with the value
\* log_rate is sampled as.
log_LogEffect_apply(trend, data, rate) == Ok(ClippedLog(rate, data))

\* effects.py and effects/effects.py: LogEffect.compute_effect(trend, data),
\* with the value log_rate is sampled as.
LogEffect_compute_effect(trend, data, rate) ==
    IF effect_mode = "additive" THEN Ok(UnclippedLog(rate, data))
    ELSE Times(trend, Ok(UnclippedLog(rate, data)))

LogClasses ==
    {"effects.log.LogEffect", "effects.effects.LogEffect", "effects.LogEffect"}

\* A log effect of one of the three classes in either mode; one evaluation
\* is to be made.
InitLog ==
    /\ cls \in LogClasses
    /\ effect_mode \in {"additive", "multiplicative"}
    /\ regex = None
    /\ tags = NoObject
    /\ input_feature_column_names = <<>>
    /\ is_initialized = FALSE
    /\ prepared = NoObject
    /\ hetero = NoObject
    /\ hook_saw = NoObject
    /\ ret = NoObject
    /\ call \in {[op |-> IF cls = "effects.log.LogEffect" THEN "_apply"
                         ELSE "compute_effect",
                  trend |-> "trend", data |-> d] : d \in LogData}

\* LogEffect._apply of effects/log.py
LogApply ==
    /\ call.op = "_apply"
    /\ ret = NoObject
    /\ \E rate \in Rates :
           /\ call' = [op |-> "_apply", trend |-> call.trend,
                       data |-> call.data, log_rate |-> rate]
           /\ ret' = log_LogEffect_apply(call.trend, call.data, rate)
    /\ UNCHANGED <<effectVars, hetero>>

\* LogEffect.compute_effect of effects.py and effects/effects.py
LogComputeEffect ==
    /\ call.op = "compute_effect"
    /\ cls \in LogClasses
    /\ ret = NoObject
    /\ \E rate \in Rates :
           /\ call' = [op |-> "compute_effect", trend |-> call.trend,
                       data |-> call.data, log_rate |-> rate]
           /\ ret' = LogEffect_compute_effect(call.trend, call.data, rate)
    /\ UNCHANGED <<effectVars, hetero>>

NextLog == LogApply \/ LogComputeEffect

SpecLog == InitLog /\ [][NextLog]_vars

\* The raw effect in the outcome of an evaluation.
RawOf(outcome) ==
    IF outcome.value.fn = "trend*x" THEN outcome.value.x ELSE outcome.value

\* C17: for every covariate value and every rate, rate * data <= -1
\* included, the evaluation of a log effect does not raise, the argument of
\* the logarithm is at least the floor, and the raw effect is defined.
C17_LogArgumentAtLeastFloor ==
    (cls \in LogClasses /\ ret # NoObject) =>
        /\ ret.status = "ok"
        /\ \A t \in 1..Len(call.data) :
               /\ RawOf(ret).v[t].log_argument >= 1
               /\ RawOf(ret).v[t].value = "finite"

=============================================================================
